---------------------------- MODULE Spec2Model ----------------------------
(***************************************************************************)
(* A model of the BGST extractor (src/src/lib.rs): header validation and   *)
(* parsing, grid-entry parsing, block resolution and decode orchestration, *)
(* PNG conversion and export (extract_bgst), and the mask compositor       *)
(* (apply_mask).                                                           *)
(*                                                                         *)
(* A byte buffer (Vec<u8>) is a record [len, data]: len is the buffer's    *)
(* length and data maps the offsets of its non-zero bytes to their values; *)
(* every other offset below len holds 0.  Offsets and sizes are the        *)
(* program's own (0x40, 0x10, 0x20000).                                    *)
(***************************************************************************)
EXTENDS Integers, Sequences, FiniteSets, TLC

\* ------------------------------------------------------------- constants
HEADER_SIZE == 64

GRID_ENTRY_SIZE == 16

COMPRESSED_IMAGE_SIZE == 131072

\* ---------------------------------------------------------------- bounds
\* Largest number of whole grid entries the generated containers hold.
MaxEntries == 2

\* Largest number of pixels of the images handed to apply_mask.
MaxPixels == 4

\* ------------------------------------------------------- byte buffers
\* &buf[i], for i < buf.len.
Byte(buf, i) == IF i \in DOMAIN buf.data THEN buf.data[i] ELSE 0

\* &buf[a..b] is in bounds (otherwise the slice expression panics).
SliceOK(buf, a, b) == a <= b /\ b <= buf.len

\* Mutant of read_u32: the four bytes taken in little-endian order.
read_u32_le(buf, a) ==
    ((Byte(buf, a + 3) * 256 + Byte(buf, a + 2)) * 256 + Byte(buf, a + 1)) * 256
        + Byte(buf, a)

\* BigEndian::read_u32(&buf[a..a+4])
read_u32(buf, a) ==
    ((Byte(buf, a) * 256 + Byte(buf, a + 1)) * 256 + Byte(buf, a + 2)) * 256
        + Byte(buf, a + 3)

\* BigEndian::read_i16(&buf[a..a+2])
read_i16(buf, a) ==
    LET u == Byte(buf, a) * 256 + Byte(buf, a + 1)
    IN  IF u >= 32768 THEN u - 65536 ELSE u

\* `x as i16` for a u32 x: the low 16 bits, read as two's complement.
AsI16(x) ==
    LET m == x % 65536
    IN  IF m >= 32768 THEN m - 65536 ELSE m

\* ------------------------------------------------------------ Header
\* The first four bytes of the buffer, as a tuple.
Magic(buf) == <<Byte(buf, 0), Byte(buf, 1), Byte(buf, 2), Byte(buf, 3)>>

\* b"BGST"
BGST == <<66, 71, 83, 84>>

\* Mutant of validate_header: a buffer of exactly HEADER_SIZE bytes is
\* rejected.
validate_header_strict(file_contents) ==
    IF file_contents.len <= HEADER_SIZE
    THEN FALSE
    ELSE IF Magic(file_contents) # BGST
         THEN FALSE
         ELSE TRUE

\* Mutant of validate_header: nothing is checked.
validate_header_none(file_contents) == TRUE

validate_header(file_contents) ==
    IF file_contents.len < HEADER_SIZE
    THEN FALSE
    ELSE IF Magic(file_contents) # BGST
         THEN FALSE
         ELSE TRUE

\* header_contents.get(0x1C + i).copied().unwrap_or(0) != 0
LayerEnabled(header_contents, i) ==
    (IF 28 + i < header_contents.len THEN Byte(header_contents, 28 + i) ELSE 0) # 0

from_validated_header_bytes(header_contents) ==
    [ unk_4             |-> read_u32(header_contents, 4),
      image_width       |-> read_u32(header_contents, 8),
      image_height      |-> read_u32(header_contents, 12),
      grid_width        |-> read_u32(header_contents, 16),
      grid_height       |-> read_u32(header_contents, 20),
      image_count       |-> read_u32(header_contents, 24),
      layer_enabled     |-> [i \in 1..12 |-> LayerEnabled(header_contents, i - 1)],
      info_offset       |-> read_u32(header_contents, 40),
      image_data_offset |-> read_u32(header_contents, 44) ]

\* The header variable's value before a header has been parsed.
NoHeader ==
    [ unk_4 |-> 0, image_width |-> 0, image_height |-> 0, grid_width |-> 0,
      grid_height |-> 0, image_count |-> 0,
      layer_enabled |-> [i \in 1..12 |-> FALSE],
      info_offset |-> 0, image_data_offset |-> 0 ]

\* --------------------------------------------------------- GridEntry
\* The eight two-byte slices one loop iteration takes are all in bounds.
EntryReadsOK(buf, current_offset) ==
    \A k \in 0..7 :
        SliceOK(buf, current_offset + 2 * k, current_offset + 2 * k + 2)

\* One iteration's GridEntry, read at current_offset.
ReadEntry(buf, current_offset) ==
    [ enabled          |-> read_i16(buf, current_offset),
      scene_index      |-> read_i16(buf, current_offset + 2),
      grid_x           |-> read_i16(buf, current_offset + 4),
      grid_y           |-> read_i16(buf, current_offset + 6),
      main_image_index |-> read_i16(buf, current_offset + 8),
      mask_image_index |-> read_i16(buf, current_offset + 10),
      unk_c            |-> read_i16(buf, current_offset + 12),
      unk_e            |-> read_i16(buf, current_offset + 14) ]

\* Mutant of EntryStep: the cursor advances by half a record.
EntryStepHalf == GRID_ENTRY_SIZE \div 2

\* The cursor's advance per iteration.
EntryStep == GRID_ENTRY_SIZE

\* while current_offset < header.image_data_offset
LoopContinues(current_offset, image_data_offset) ==
    current_offset < image_data_offset

\* ------------------------------------------- block resolution + decode
\* Mutant of IndexAccepted: the upper bound is inclusive.
IndexAcceptedInclusive(index, image_count) ==
    index > -1 /\ index <= AsI16(image_count)

\* The range test guarding each slot:
\* index > -1 && index < header.image_count as i16
IndexAccepted(index, image_count) ==
    index > -1 /\ index < AsI16(image_count)

\* Vec::from(&image_data[index * SIZE .. index * SIZE + SIZE]) is in bounds;
\* image_data is the file from image_data_offset on, image_data_len bytes.
BlockSliceOK(index, image_data_len) ==
    index * COMPRESSED_IMAGE_SIZE <= index * COMPRESSED_IMAGE_SIZE + COMPRESSED_IMAGE_SIZE
    /\ index * COMPRESSED_IMAGE_SIZE + COMPRESSED_IMAGE_SIZE <= image_data_len

\* The bytes of block `index`: a window of the file, by its first offset
\* in the file and its length.
BlockSlice(index, image_data_offset) ==
    [ first |-> image_data_offset + index * COMPRESSED_IMAGE_SIZE,
      len   |-> COMPRESSED_IMAGE_SIZE ]

\* gctex::decode(&encoded, width, height, format, &Vec::new(), 0): the
\* decoder is an external crate; the raster it returns is identified by
\* the request and has width * height * 4 bytes.
Decode(encoded, width, height, format) ==
    [ format |-> format, block |-> encoded, width |-> width,
      height |-> height, len |-> width * height * 4 ]

\* One slot (main or mask) of entry number k (zero-based) of the decode
\* loop.  acc = [ok, images, slices, slots]: slices logs every block slice
\* taken (the one that panicked included), slots[j] names the entry and
\* slot that pushed images[j].
Slot(acc, k, which, index, format, header, image_data_len) ==
    IF ~acc.ok \/ ~IndexAccepted(index, header.image_count)
    THEN acc
    ELSE LET taken == Append(acc.slices, [entry |-> k, slot |-> which, index |-> index])
         IN  IF BlockSliceOK(index, image_data_len)
             THEN [ ok     |-> TRUE,
                    images |-> Append(acc.images,
                                  Decode(BlockSlice(index, header.image_data_offset),
                                         header.image_width, header.image_height,
                                         format)),
                    slices |-> taken,
                    slots  |-> Append(acc.slots, <<k, which>>) ]
             ELSE [ ok |-> FALSE, images |-> acc.images, slices |-> taken,
                    slots |-> acc.slots ]

\* Mutant of EntryBody: the mask slot is handled before the main slot.
EntryBodyMaskFirst(acc, k, entry, header, image_data_len) ==
    Slot(Slot(acc, k, "mask", entry.mask_image_index, "I4", header, image_data_len),
         k, "main", entry.main_image_index, "CMPR", header, image_data_len)

\* The body of `for i in 0..grid_entries.len()` for entry k: the main slot
\* (CMPR), then the mask slot (I4).
EntryBody(acc, k, entry, header, image_data_len) ==
    Slot(Slot(acc, k, "main", entry.main_image_index, "CMPR", header, image_data_len),
         k, "mask", entry.mask_image_index, "I4", header, image_data_len)

\* let image_data = Vec::from(&bgst_contents[header.image_data_offset..]);
ImageDataOK(buf, image_data_offset) == SliceOK(buf, image_data_offset, buf.len)

\* ------------------------------------------------------ PNG conversion
\* RgbaImage::from_raw(width, height, raw) is Some: the container holds at
\* least width * height * 4 bytes.
FromRawOK(width, height, raw_len) == width * height * 4 <= raw_len

\* img.write_to(&mut buffer, ImageFormat::Png): the encoded file of a raster.
PngOf(raw_image, width, height) ==
    [png |-> raw_image, width |-> width, height |-> height]

\* One iteration of `for raw_image in &raw_images.images`: the image is
\* pushed when from_raw takes it, and skipped otherwise.
PngStep(result, raw_image, width, height) ==
    IF FromRawOK(width, height, raw_image.len)
    THEN Append(result, PngOf(raw_image, width, height))
    ELSE result

\* The file name index of the i-th iteration of the write loop
\* (folder_name + "/" + i.to_string() + ".png").
WriteName(i) == i

\* ---------------------------------------------------------- apply_mask
\* get_pixel(x, y) of a row-major RGBA raster of the given width.
PixelAt(raw, width, x, y) ==
    LET o == (y * width + x) * 4
    IN  <<raw[o + 1], raw[o + 2], raw[o + 3], raw[o + 4]>>

\* Mutant of MaskIsBlack: only the red channel is looked at.
MaskIsBlackRedOnly(mask_pixel) == mask_pixel[1] = 0

\* The mask pixel is black (r = 0, g = 0, b = 0).
MaskIsBlack(mask_pixel) ==
    mask_pixel[1] = 0 /\ mask_pixel[2] = 0 /\ mask_pixel[3] = 0

\* The output pixel for one position.
OutPixel(main_pixel, mask_pixel) ==
    IF MaskIsBlack(mask_pixel)
    THEN <<main_pixel[1], main_pixel[2], main_pixel[3], 0>>
    ELSE main_pixel

\* output_img.into_raw(): the pixels in row-major order, four bytes each.
OutputBytes(main_image, mask_image, width, height) ==
    [ j \in 1..(width * height * 4) |->
        LET p == (j - 1) \div 4
            x == p % width
            y == p \div width
        IN  OutPixel(PixelAt(main_image, width, x, y),
                     PixelAt(mask_image, width, x, y))[((j - 1) % 4) + 1] ]

apply_mask(main_image, mask_image, width, height) ==
    IF Len(main_image) # Len(mask_image)
    THEN [ok |-> FALSE, err |-> "the image sizes are not equal!", bytes |-> <<>>]
    ELSE IF ~FromRawOK(width, height, Len(main_image))
         THEN [ok |-> FALSE, err |-> "failed to decode main image", bytes |-> <<>>]
         ELSE IF ~FromRawOK(width, height, Len(mask_image))
              THEN [ok |-> FALSE, err |-> "failed to decode mask image", bytes |-> <<>>]
              ELSE [ok |-> TRUE, err |-> "",
                    bytes |-> OutputBytes(main_image, mask_image, width, height)]


\* ----------------------------------------------------- generated inputs
\* v as n big-endian bytes at offsets off .. off+n-1 (v < 0: two's
\* complement on 16 bits).
PutBE(off, n, v) ==
    LET u == IF v < 0 THEN v + 65536 ELSE v
    IN  [i \in off..(off + n - 1) |-> (u \div (256 ^ (off + n - 1 - i))) % 256]

\* A buffer of the given length holding the bytes of f that lie below it.
MkBuf(len, f) ==
    [ len  |-> len,
      data |-> [i \in {j \in DOMAIN f : j < len /\ f[j] # 0} |-> f[i]] ]

HeaderBytes(magic, unk_4, w, h, gw, gh, count, layers, io, ido) ==
    [i \in 0..3 |-> magic[i + 1]] @@ PutBE(4, 4, unk_4) @@ PutBE(8, 4, w)
    @@ PutBE(12, 4, h) @@ PutBE(16, 4, gw) @@ PutBE(20, 4, gh)
    @@ PutBE(24, 4, count) @@ [i \in 28..39 |-> layers[i - 27]]
    @@ PutBE(40, 4, io) @@ PutBE(44, 4, ido)

EntryBytes(off, e) ==
    PutBE(off, 2, e.enabled) @@ PutBE(off + 2, 2, e.scene_index)
    @@ PutBE(off + 4, 2, e.grid_x) @@ PutBE(off + 6, 2, e.grid_y)
    @@ PutBE(off + 8, 2, e.main_image_index)
    @@ PutBE(off + 10, 2, e.mask_image_index)
    @@ PutBE(off + 12, 2, e.unk_c) @@ PutBE(off + 14, 2, e.unk_e)

\* The k-th (zero-based) generated entry with the given image indices; the
\* other fields differ per field and per entry, negative values included.
GenEntry(k, main, mask) ==
    [ enabled |-> k % 2, scene_index |-> 5 + k, grid_x |-> -(k + 1),
      grid_y |-> 258 * (k + 1), main_image_index |-> main,
      mask_image_index |-> mask, unk_c |-> -32768 + k, unk_e |-> 4660 + k ]

RECURSIVE EntriesBytes(_, _, _)
EntriesBytes(io, idx, k) ==
    IF k >= Len(idx)
    THEN <<>>
    ELSE EntryBytes(io + GRID_ENTRY_SIZE * k, GenEntry(k, idx[k + 1][1], idx[k + 1][2]))
         @@ EntriesBytes(io, idx, k + 1)

\* The <<main_image_index, mask_image_index>> pairs the generated entries
\* use: no image, both images, and indices that image_count = 1 rejects.
IdxPairs == {<<-1, -1>>, <<0, 1>>, <<1, 0>>, <<1, -1>>, <<-32768, 0>>}

\* image_count values of the generated headers.
CountVals == {1, 2, 32768, 65537}

\* info_offset values, and image_data_offset - info_offset: every multiple
\* of 8 up to MaxEntries whole entries, and one negative distance.
InfoOffsets == {64, 72}

Deltas == {-16} \cup {8 * j : j \in 0..(2 * MaxEntries)}

\* The number of 16-byte records the loop reads for a distance d.
Records(d) == IF d <= 0 THEN 0 ELSE (d + 15) \div 16

Layers == <<1, 0, 1, 0, 1, 1, 0, 0, 0, 0, 0, 2>>

LenVals(io, ido, n) ==
    { l \in { 64, ido, io + 16 * n - 1, io + 16 * n,
              ido + COMPRESSED_IMAGE_SIZE - 1, ido + COMPRESSED_IMAGE_SIZE,
              ido + 2 * COMPRESSED_IMAGE_SIZE } : l >= 64 }

\* Containers with the right magic and a full header.
GoodBufs ==
    UNION { UNION { UNION { UNION {
        { MkBuf(len, HeaderBytes(BGST, 16909060, 4, 8, 1280, 3, count, Layers,
                                 io, io + d)
                     @@ EntriesBytes(io, idx, 0))
          : len \in LenVals(io, io + d, Records(d)) }
        : idx \in [1..Records(d) -> IdxPairs] }
        : count \in CountVals }
        : d \in Deltas }
        : io \in InfoOffsets }

\* Buffers that are too short or carry another magic.
BadBufs ==
    { MkBuf(len, HeaderBytes(magic, 17, 4, 8, 5, 3, 1, Layers, 64, 64))
      : len \in {0, 3, 4, 63, 64, 64 + COMPRESSED_IMAGE_SIZE},
        magic \in {BGST, <<66, 71, 83, 88>>, <<98, 71, 83, 84>>, <<0, 0, 0, 0>>} }

\* The end-to-end scenario's header (unk_4 = 0x11, 0x200 x 0x200, grid 5 x 3,
\* image_count = 0x42, info_offset = 0x40, image_data_offset = 0x440), in
\* buffers of several lengths; the bytes after the header are zero.
ScenarioHeader(layers) ==
    HeaderBytes(BGST, 17, 512, 512, 5, 3, 66, layers, 64, 1088)

ScenarioLayers == {Layers, <<0, 0, 0, 0, 0, 0, 0, 0, 0, 0, 0, 0>>}

ScenarioBufs ==
    { MkBuf(len, ScenarioHeader(layers))
      : len \in {64, 1087, 1088, 1088 + COMPRESSED_IMAGE_SIZE},
        layers \in ScenarioLayers }

Bufs == GoodBufs \cup BadBufs \cup ScenarioBufs

\* Pixels of the images handed to apply_mask.
MainPixels == {<<10, 20, 30, 255>>, <<40, 50, 60, 0>>}

MaskPixels == {<<0, 0, 0, 255>>, <<1, 0, 0, 0>>, <<0, 1, 0, 0>>, <<0, 0, 1, 0>>}

\* The raw bytes of a sequence of pixels.
Flatten(ps) == [j \in 1..(4 * Len(ps)) |-> ps[((j - 1) \div 4) + 1][((j - 1) % 4) + 1]]

\* ---------------------------------------------------------------- state
VARIABLES
    input,          \* the file named by input_filename: [buf]
    pc,             \* extract_bgst's position, or how it ended
    last,           \* the last step extract_bgst took
    env,            \* what the run has seen of the filesystem and the file name
    file_contents,  \* the bytes read
    header,         \* get_raw_images' header
    current_offset, \* the entry-parsing loop's cursor
    grid_entries,   \* get_raw_images' grid_entries
    i,              \* the decode loop's index
    raw,            \* the decode loop's images, with the block slices taken
                    \* (slices) and the slot that pushed each image (slots)
    png_images,     \* get_png_images' result
    n_converted,    \* the raw images get_png_images has gone through
    writes,         \* the fs::write calls made, in order: [name, data]
    dir_calls,      \* the fs::create_dir calls made
    m_pc,           \* apply_mask's position
    m_in,           \* apply_mask's arguments: [main, mask, width, height]
    m_out           \* apply_mask's result

vars == <<input, pc, last, env, file_contents, header, current_offset,
          grid_entries, i, raw, png_images, n_converted, writes, dir_calls,
          m_pc, m_in, m_out>>

pipe_vars == <<input, pc, last, env, file_contents, header, current_offset,
               grid_entries, i, raw, png_images, n_converted, writes, dir_calls>>

mask_vars == <<m_pc, m_in, m_out>>

NoBuf == [len |-> 0, data |-> <<>>]

NoRaw == [ok |-> TRUE, images |-> <<>>, slices |-> <<>>, slots |-> <<>>]

NoEnv == [exists |-> FALSE, suffix |-> FALSE, folder_exists |-> FALSE]

NoMaskIn == [main |-> <<>>, mask |-> <<>>, width |-> 0, height |-> 0]

NoMaskOut == [ok |-> FALSE, err |-> "", bytes |-> <<>>]

\* Nothing has run yet.
Fresh ==
    /\ last = "none" /\ env = NoEnv
    /\ file_contents = NoBuf /\ header = NoHeader /\ current_offset = 0
    /\ grid_entries = <<>> /\ i = 0 /\ raw = NoRaw /\ png_images = <<>>
    /\ n_converted = 0 /\ writes = <<>> /\ dir_calls = 0

PipeIdle == input = [buf |-> NoBuf] /\ pc = "idle" /\ Fresh

MaskIdle == m_pc = "idle" /\ m_in = NoMaskIn /\ m_out = NoMaskOut

\* extract_bgst is about to run on one of the generated files.
Init ==
    /\ input \in [buf : Bufs]
    /\ pc = "start"
    /\ Fresh
    /\ MaskIdle

\* ------------------------------------------------------- extract_bgst
\* if !fs::exists(input_filename).unwrap() { bail!(...) }
CheckExists ==
    /\ pc = "start"
    /\ \E e \in BOOLEAN :
        /\ env' = [env EXCEPT !.exists = e]
        /\ pc' = IF e THEN "exists" ELSE "err"
    /\ last' = "exists"
    /\ UNCHANGED <<input, file_contents, header, current_offset, grid_entries,
                   i, raw, png_images, n_converted, writes, dir_calls, mask_vars>>

\* let file_contents = fs::read(input_filename)?; the read gives the
\* file's bytes or fails.
ReadFile ==
    /\ pc = "exists"
    /\ \/ file_contents' = input.buf /\ pc' = "read"
       \/ file_contents' = file_contents /\ pc' = "err"
    /\ last' = "read"
    /\ UNCHANGED <<input, env, header, current_offset, grid_entries, i, raw,
                   png_images, n_converted, writes, dir_calls, mask_vars>>

\* if !validate_header(&file_contents) { bail!(...) }
Validate ==
    /\ pc = "read"
    /\ pc' = IF validate_header(file_contents) THEN "validated" ELSE "err"
    /\ last' = "validate"
    /\ UNCHANGED <<input, env, file_contents, header, current_offset,
                   grid_entries, i, raw, png_images, n_converted, writes,
                   dir_calls, mask_vars>>

\* get_raw_images, to the start of the entry-parsing loop: its own
\* validation, the header, the cursor.
ParseHeader ==
    /\ pc = "validated"
    /\ last' = "header"
    /\ IF ~validate_header(file_contents)
       THEN pc' = "err" /\ UNCHANGED <<header, current_offset>>
       ELSE /\ header' = from_validated_header_bytes(file_contents)
            /\ current_offset' = header'.info_offset
            /\ pc' = "parsing"
    /\ UNCHANGED <<input, env, file_contents, grid_entries, i, raw, png_images,
                   n_converted, writes, dir_calls, mask_vars>>

\* One iteration of the entry-parsing loop: eight reads, a push, the
\* cursor's advance; a read out of bounds panics and the entries are lost.
ParseEntry ==
    /\ pc = "parsing"
    /\ LoopContinues(current_offset, header.image_data_offset)
    /\ last' = "entry"
    /\ IF EntryReadsOK(file_contents, current_offset)
       THEN /\ grid_entries' = Append(grid_entries,
                                      ReadEntry(file_contents, current_offset))
            /\ current_offset' = current_offset + EntryStep
            /\ pc' = pc
       ELSE /\ grid_entries' = <<>>
            /\ pc' = "panic"
            /\ UNCHANGED current_offset
    /\ UNCHANGED <<input, env, file_contents, header, i, raw, png_images,
                   n_converted, writes, dir_calls, mask_vars>>

\* The entry-parsing loop ends: grid_entries is complete.
ParseDone ==
    /\ pc = "parsing"
    /\ ~LoopContinues(current_offset, header.image_data_offset)
    /\ last' = "parsed"
    /\ pc' = "parsed"
    /\ UNCHANGED <<input, env, file_contents, header, current_offset,
                   grid_entries, i, raw, png_images, n_converted, writes,
                   dir_calls, mask_vars>>

\* let mut images = Vec::new(); let image_data = Vec::from(&bgst_contents[..]);
SliceImageData ==
    /\ pc = "parsed"
    /\ last' = "image_data"
    /\ pc' = IF ImageDataOK(file_contents, header.image_data_offset)
             THEN "decoding" ELSE "panic"
    /\ i' = 0
    /\ UNCHANGED <<input, env, file_contents, header, current_offset,
                   grid_entries, raw, png_images, n_converted, writes,
                   dir_calls, mask_vars>>

\* One iteration of `for i in 0..grid_entries.len()`.
DecodeEntry ==
    /\ pc = "decoding"
    /\ i < Len(grid_entries)
    /\ last' = "decode"
    /\ raw' = EntryBody(raw, i, grid_entries[i + 1], header,
                        file_contents.len - header.image_data_offset)
    /\ IF raw'.ok
       THEN i' = i + 1 /\ pc' = pc
       ELSE i' = i /\ pc' = "panic"
    /\ UNCHANGED <<input, env, file_contents, header, current_offset,
                   grid_entries, png_images, n_converted, writes, dir_calls,
                   mask_vars>>

\* The decode loop ends: Ok(ImageList { .. }) is returned to extract_bgst.
DecodeDone ==
    /\ pc = "decoding"
    /\ ~(i < Len(grid_entries))
    /\ last' = "decoded"
    /\ pc' = "converting"
    /\ UNCHANGED <<input, env, file_contents, header, current_offset,
                   grid_entries, i, raw, png_images, n_converted, writes,
                   dir_calls, mask_vars>>

\* One iteration of get_png_images' loop.
ConvertImage ==
    /\ pc = "converting"
    /\ n_converted < Len(raw.images)
    /\ last' = "convert"
    /\ png_images' = PngStep(png_images, raw.images[n_converted + 1],
                             header.image_width, header.image_height)
    /\ n_converted' = n_converted + 1
    /\ UNCHANGED <<input, pc, env, file_contents, header, current_offset,
                   grid_entries, i, raw, writes, dir_calls, mask_vars>>

\* get_png_images returns; strip_suffix(".bgst3").unwrap(); the folder is
\* created unless fs::exists says it is there.
PrepareFolder ==
    /\ pc = "converting"
    /\ n_converted = Len(raw.images)
    /\ last' = "folder"
    /\ \E suffix \in BOOLEAN, folder_exists \in BOOLEAN :
        /\ env' = [env EXCEPT !.suffix = suffix,
                              !.folder_exists = suffix /\ folder_exists]
        /\ IF ~suffix
           THEN pc' = "panic" /\ UNCHANGED dir_calls
           ELSE /\ pc' = "writing"
                /\ dir_calls' = IF folder_exists THEN dir_calls ELSE dir_calls + 1
    /\ UNCHANGED <<input, file_contents, header, current_offset, grid_entries,
                   i, raw, png_images, n_converted, writes, mask_vars>>

\* One iteration of `for i in 0..png_images.len()`; the loop's i is the
\* number of writes made so far.
WriteFile ==
    /\ pc = "writing"
    /\ Len(writes) < Len(png_images)
    /\ last' = "write"
    /\ writes' = Append(writes, [name |-> WriteName(Len(writes)),
                                 data |-> png_images[Len(writes) + 1]])
    /\ UNCHANGED <<input, pc, env, file_contents, header, current_offset,
                   grid_entries, i, raw, png_images, n_converted, dir_calls,
                   mask_vars>>

\* Ok(())
Finish ==
    /\ pc = "writing"
    /\ Len(writes) = Len(png_images)
    /\ last' = "finish"
    /\ pc' = "done"
    /\ UNCHANGED <<input, env, file_contents, header, current_offset,
                   grid_entries, i, raw, png_images, n_converted, writes,
                   dir_calls, mask_vars>>

Next ==
    \/ CheckExists
    \/ ReadFile
    \/ Validate
    \/ ParseHeader
    \/ ParseEntry
    \/ ParseDone
    \/ SliceImageData
    \/ DecodeEntry
    \/ DecodeDone
    \/ ConvertImage
    \/ PrepareFolder
    \/ WriteFile
    \/ Finish

Spec == Init /\ [][Next]_vars

\* ------------------------------------------------- apply_mask, called
\* Rasters of n pixels over a pool of pixels.
Rasters(pool, n) == { Flatten(ps) : ps \in [1..n -> pool] }

\* apply_mask is about to be called: a width and a height of at most
\* MaxPixels pixels, and two rasters of that size or one pixel short.
MaskInit ==
    /\ PipeIdle
    /\ m_pc = "call"
    /\ m_out = NoMaskOut
    /\ \E w \in 1..MaxPixels, h \in 1..MaxPixels :
        /\ w * h <= MaxPixels
        /\ \E a \in {w * h - 1, w * h}, b \in {w * h - 1, w * h} :
            \E main \in Rasters(MainPixels, a), mask \in Rasters(MaskPixels, b) :
                m_in = [main |-> main, mask |-> mask, width |-> w, height |-> h]

ApplyMask ==
    /\ m_pc = "call"
    /\ m_out' = apply_mask(m_in.main, m_in.mask, m_in.width, m_in.height)
    /\ m_pc' = "return"
    /\ UNCHANGED <<m_in, pipe_vars>>

MaskNext == ApplyMask

SpecMask == MaskInit /\ [][MaskNext]_vars


\* =============================================================== claims
\* ---- helpers of the claims' formulas, written from the container layout
\* A signed 16-bit value from its high and low byte.
S16(hi, lo) == IF 256 * hi + lo >= 32768 THEN 256 * hi + lo - 65536 ELSE 256 * hi + lo

\* The eight fields of the 16-byte window of buf at offset o, in file order.
WindowFields(buf, o) ==
    [f \in 1..8 |-> S16(Byte(buf, o + 2 * (f - 1)), Byte(buf, o + 2 * (f - 1) + 1))]

\* An entry's fields in declaration order.
EntryFields(e) ==
    <<e.enabled, e.scene_index, e.grid_x, e.grid_y, e.main_image_index,
      e.mask_image_index, e.unk_c, e.unk_e>>

\* The buffer is at least 64 bytes long and starts with "BGST".
ValidContainer(buf) ==
    /\ buf.len >= 64
    /\ Byte(buf, 0) = 66 /\ Byte(buf, 1) = 71 /\ Byte(buf, 2) = 83 /\ Byte(buf, 3) = 84

\* The image index of a slot of entry k (zero-based).
SlotIndex(k, which) ==
    IF which = "main" THEN grid_entries[k + 1].main_image_index
                      ELSE grid_entries[k + 1].mask_image_index

SlotFormat(which) == IF which = "main" THEN "CMPR" ELSE "I4"

AllSlots == (0..(Len(grid_entries) - 1)) \X {"main", "mask"}

\* Slot order: entries in file order, main before mask within an entry.
SlotBefore(a, b) == a[1] < b[1] \/ (a[1] = b[1] /\ a[2] = "main" /\ b[2] = "mask")

\* get_raw_images has returned its image list to extract_bgst.
RawReturned == pc \in {"converting", "writing", "done"} \/ (pc = "panic" /\ last = "folder")

\* C1: validate_header is true exactly for the buffers of at least 64 bytes
\* whose first four bytes are "BGST": right after the validation step the
\* run goes on if the file is such a buffer and ends in an error otherwise.
C1_ValidateHeader ==
    last = "validate" =>
        /\ ValidContainer(input.buf) => pc = "validated"
        /\ ~ValidContainer(input.buf) => pc = "err"

\* C1 witness: a buffer longer than 64 bytes with the magic was accepted.
C1_Witness ==
    last = "validate" /\ pc = "validated" /\ input.buf.len > 64

\* C2: with image_data_offset = info_offset + 16 * N inside the buffer, the
\* entry loop does not fail and yields exactly N entries, the k-th read from
\* the window at info_offset + 16 * k as eight big-endian signed 16-bit
\* fields.
C2_EntriesFromWindows ==
    LET O == header.info_offset
        D == header.image_data_offset - header.info_offset
    IN  (last \in {"entry", "parsed"} /\ D >= 0 /\ D % 16 = 0
           /\ header.image_data_offset <= file_contents.len)
        => /\ pc # "panic"
           /\ pc = "parsed" =>
                /\ Len(grid_entries) * 16 = D
                /\ \A k \in 0..(Len(grid_entries) - 1) :
                     EntryFields(grid_entries[k + 1])
                        = WindowFields(input.buf, O + 16 * k)

\* C2 witness: two entries were parsed from info_offset = 72, with negative
\* field values among them.
C2_Witness ==
    /\ pc = "parsed" /\ Len(grid_entries) = 2 /\ header.info_offset = 72
    /\ header.image_data_offset = 104
    /\ grid_entries[2].grid_x < 0 /\ grid_entries[1].unk_c < 0

\* ---- apply_mask
\* Byte c (1..4: r, g, b, a) of pixel p (zero-based) of a raw RGBA buffer.
Chan(bytes, p, c) == bytes[4 * p + c]

MaskBlackAt(p) ==
    Chan(m_in.mask, p, 1) = 0 /\ Chan(m_in.mask, p, 2) = 0 /\ Chan(m_in.mask, p, 3) = 0

\* apply_mask has returned for two buffers of 4 * w * h bytes.
MaskReturned ==
    /\ m_pc = "return"
    /\ Len(m_in.main) = 4 * m_in.width * m_in.height
    /\ Len(m_in.mask) = 4 * m_in.width * m_in.height

MaskPositions == 0..(m_in.width * m_in.height - 1)

\* C3 as claimed: the output alpha is 0 if and only if the mask pixel is
\* black (and then the RGB is main's); otherwise the output pixel is main's.
C3_Original ==
    MaskReturned =>
        /\ m_out.ok
        /\ \A p \in MaskPositions :
            /\ (Chan(m_out.bytes, p, 4) = 0) <=> MaskBlackAt(p)
            /\ MaskBlackAt(p) => \A c \in 1..3 :
                                    Chan(m_out.bytes, p, c) = Chan(m_in.main, p, c)
            /\ ~MaskBlackAt(p) => \A c \in 1..4 :
                                    Chan(m_out.bytes, p, c) = Chan(m_in.main, p, c)

\* C3 amended: where the mask pixel is black the output is main's RGB with
\* alpha 0; elsewhere it is main's pixel in all four channels.  So the output
\* alpha is 0 exactly where the mask is black or main's alpha is already 0.
C3_MaskComposite ==
    MaskReturned =>
        /\ m_out.ok
        /\ Len(m_out.bytes) = 4 * m_in.width * m_in.height
        /\ \A p \in MaskPositions :
            /\ MaskBlackAt(p) =>
                 /\ Chan(m_out.bytes, p, 4) = 0
                 /\ \A c \in 1..3 : Chan(m_out.bytes, p, c) = Chan(m_in.main, p, c)
            /\ ~MaskBlackAt(p) => \A c \in 1..4 :
                                    Chan(m_out.bytes, p, c) = Chan(m_in.main, p, c)
            /\ (Chan(m_out.bytes, p, 4) = 0)
                 <=> (MaskBlackAt(p) \/ Chan(m_in.main, p, 4) = 0)

\* C3 witness: a 2 x 2 composite with a black mask pixel over an opaque main
\* pixel, and a non-black mask pixel over a transparent main pixel.
C3_Witness ==
    /\ MaskReturned /\ m_out.ok /\ m_in.width = 2 /\ m_in.height = 2
    /\ \E p \in MaskPositions : MaskBlackAt(p) /\ Chan(m_in.main, p, 4) = 255
    /\ \E p \in MaskPositions : ~MaskBlackAt(p) /\ Chan(m_in.main, p, 4) = 0

\* ---- decode orchestration
\* C4: a slot whose index is negative or >= image_count has no block slice
\* taken and no image pushed for it, and the decode loop never fails at such
\* a slot; every image of the list comes from one distinct slot, so each such
\* slot makes the list one shorter than the 2 * N slots.
C4_OutOfRangeSkipped ==
    LET Skipped == { s \in AllSlots : SlotIndex(s[1], s[2]) < 0
                                      \/ SlotIndex(s[1], s[2]) >= header.image_count }
    IN  /\ \A s \in Skipped :
            /\ \A j \in 1..Len(raw.slots) : raw.slots[j] # s
            /\ \A j \in 1..Len(raw.slices) :
                 ~(raw.slices[j].entry = s[1] /\ raw.slices[j].slot = s[2])
        /\ (pc = "panic" /\ last = "decode") =>
            /\ Len(raw.slices) > 0
            /\ raw.slices[Len(raw.slices)].entry = i
            /\ <<i, raw.slices[Len(raw.slices)].slot>> \notin Skipped
        /\ Len(raw.images) = Len(raw.slots)
        /\ \A j, k \in 1..Len(raw.slots) : j # k => raw.slots[j] # raw.slots[k]
        /\ Len(raw.images) <= 2 * Len(grid_entries) - Cardinality(Skipped)

\* C4 witness: a run ended well in which an index of -1 and an index equal to
\* image_count were skipped and other slots gave images.
C4_Witness ==
    /\ pc = "done" /\ header.image_count = 1 /\ Len(raw.images) >= 1
    /\ \E s \in AllSlots : SlotIndex(s[1], s[2]) = 1
    /\ \E s \in AllSlots : SlotIndex(s[1], s[2]) = -1

\* The file holds block `index` of the block array.
BlockPresent(index) ==
    header.image_data_offset + (index + 1) * 131072 <= file_contents.len

\* The entry region is whole 16-byte records inside the buffer.
RegionWellFormed ==
    /\ header.info_offset <= header.image_data_offset
    /\ (header.image_data_offset - header.info_offset) % 16 = 0
    /\ header.image_data_offset <= file_contents.len

\* C5 as claimed: once get_raw_images has returned, every slot whose index is
\* in [0, image_count) has exactly one image in the list, decoded from block
\* index with CMPR (main) or I4 (mask).  Stated for the files whose entry
\* region is well formed and that hold the block.
C5_InRangeDecoded ==
    (RawReturned /\ RegionWellFormed) =>
        \A s \in AllSlots :
            LET x == SlotIndex(s[1], s[2])
            IN  (0 <= x /\ x < header.image_count /\ BlockPresent(x)) =>
                    /\ Cardinality({j \in 1..Len(raw.slots) : raw.slots[j] = s}) = 1
                    /\ \A j \in 1..Len(raw.slots) :
                         raw.slots[j] = s =>
                            /\ raw.images[j].format = SlotFormat(s[2])
                            /\ raw.images[j].block.first
                                 = header.image_data_offset + x * 131072
                            /\ raw.images[j].block.len = 131072

\* C6: the image list is in emission order (entries in file order, main
\* before mask, each image in its slot's format), and the k-th write of
\* extract_bgst is the k-th image of the list under the name k (zero-based);
\* a finished run has written every image.
C6_EmissionOrder ==
    /\ \A j \in 1..Len(raw.slots) :
         /\ raw.images[j].format = SlotFormat(raw.slots[j][2])
         /\ j < Len(raw.slots) => SlotBefore(raw.slots[j], raw.slots[j + 1])
    /\ \A k \in 1..Len(writes) :
         /\ writes[k].name = k - 1
         /\ writes[k].data.png = raw.images[k]
    /\ pc = "done" => Len(writes) = Len(raw.images)

\* C6 witness: a finished run that wrote at least three files from a list
\* holding a main and a mask image of one entry.
C6_Witness ==
    /\ pc = "done" /\ Len(writes) >= 3
    /\ \E j \in 1..(Len(raw.slots) - 1) :
         raw.slots[j][1] = raw.slots[j + 1][1]

\* C7: nothing is created or written before the header has been validated
\* and the entry loop has run to its end; a buffer that is too short or has
\* the wrong magic ends the run in an error with nothing written.
C7_ValidateBeforeWrite ==
    /\ (Len(writes) > 0 \/ dir_calls > 0) =>
         /\ ValidContainer(input.buf)
         /\ pc \in {"writing", "done"}
         /\ ~(current_offset < header.image_data_offset)
    /\ ~ValidContainer(input.buf) =>
         /\ pc \in {"start", "exists", "read", "err"}
         /\ last = "validate" => pc = "err"
         /\ Len(writes) = 0 /\ dir_calls = 0

\* C7 witness: a folder was created and a file written.
C7_Witness == dir_calls = 1 /\ Len(writes) > 0

\* C8 as claimed: entry parsing does not end with an entry list when
\* image_data_offset - info_offset is not a multiple of 16 or the entry
\* region extends past the end of the buffer.
C8_MalformedRegionFails ==
    pc = "parsed" =>
        /\ (header.image_data_offset - header.info_offset) % 16 = 0
        /\ header.info_offset < header.image_data_offset
             => header.image_data_offset <= file_contents.len

\* The block array is too short for image_count blocks:
\* len < image_data_offset + image_count * 0x20000.
BlockArrayTooShort ==
    \/ file_contents.len < header.image_data_offset
    \/ header.image_count > (file_contents.len - header.image_data_offset) \div 131072

\* C9 as claimed: get_raw_images returns no image list when the file is
\* shorter than image_data_offset + image_count * 0x20000.  Stated for the
\* files whose entry region is well formed and whose image_count fits 15 bits.
C9_ShortBlockArrayFails ==
    (RawReturned /\ RegionWellFormed /\ header.image_count < 32768)
        => ~BlockArrayTooShort

\* ---- the end-to-end scenario
\* The Header the scenario's bytes stand for.
ScenarioExpected(buf) ==
    [ unk_4 |-> 17, image_width |-> 512, image_height |-> 512,
      grid_width |-> 5, grid_height |-> 3, image_count |-> 66,
      layer_enabled |-> [l \in 1..12 |-> Byte(buf, 27 + l) # 0],
      info_offset |-> 64, image_data_offset |-> 1088 ]

InScenario ==
    /\ last \notin {"none", "exists", "read", "validate"}
    /\ Byte(input.buf, 10) = 2
    /\ input.buf \in ScenarioBufs

\* C10 as claimed: the scenario's header parses to its field values and
\* entry parsing yields exactly 1 entry.
C10_Original ==
    InScenario =>
        /\ header = ScenarioExpected(input.buf)
        /\ pc = "parsed" => Len(grid_entries) = 1

\* C10 amended: the scenario's header parses to its field values; its entry
\* region is 0x400 bytes, so entry parsing yields exactly 64 entries when the
\* buffer holds the region (length >= 0x440) and fails out of bounds,
\* without an entry list, when it does not (the bare 64-byte header included).
C10_Scenario ==
    InScenario =>
        /\ header = ScenarioExpected(input.buf)
        /\ pc = "parsed" => Len(grid_entries) = 64
        /\ pc = "parsed" => input.buf.len >= 1088
        /\ (last = "entry" /\ input.buf.len >= 1088) => pc # "panic"
        /\ (last = "entry" /\ pc = "panic") => grid_entries = <<>>
        /\ input.buf.len < 1088 => pc \in {"parsing", "panic"}

\* C10 witness: the scenario's header in a buffer of 0x440 bytes was parsed
\* into 64 entries.
C10_Witness ==
    /\ InScenario /\ pc = "parsed" /\ input.buf.len = 1088
    /\ Len(grid_entries) = 64 /\ header.layer_enabled[1]

=============================================================================
